---- MODULE Spec2Model ----
(***************************************************************************)
(* Model of hw1.py: the three model builders (onelayer, twolayer, convnet) *)
(* that add nodes to the default TensorFlow graph, and train_step, which   *)
(* runs one session step.                                                  *)
(*                                                                         *)
(* The default graph is a sequence of nodes; a tensor handle is the index  *)
(* of the node that produces it.  A static shape is a sequence of          *)
(* dimensions in which None stands for an unknown dimension.  A run-time   *)
(* value is a record [kind, shape, data, den]: data holds the entries in   *)
(* row-major order as integers (floats are quantised to integers) and den  *)
(* is a common denominator, so that a mean is exact.                       *)
(***************************************************************************)
EXTENDS Integers, Sequences, FiniteSets, TLC

VARIABLES graph, calls, sess, steps

vars == <<graph, calls, sess, steps>>

-----------------------------------------------------------------------------
(* Bounds of the model *)

MaxCalls == 2
MaxSteps == 2

-----------------------------------------------------------------------------
(* Arithmetic helpers *)

None == -1

Abs(x) == IF x < 0 THEN -x ELSE x

RECURSIVE Gcd(_, _)
Gcd(a, b) == IF b = 0 THEN a ELSE Gcd(b, a % b)

RECURSIVE Sum(_)
Sum(s) == IF s = <<>> THEN 0 ELSE Head(s) + Sum(Tail(s))

RECURSIVE Prod(_)
Prod(s) == IF s = <<>> THEN 1 ELSE Head(s) * Prod(Tail(s))

RECURSIVE GcdAll(_)
GcdAll(s) == IF s = <<>> THEN 0 ELSE Gcd(Abs(Head(s)), GcdAll(Tail(s)))

Min(S) == CHOOSE x \in S : \A y \in S : x <= y

\* Integer division, as Python 2 divides two integers.
FloorDiv(a, b) == <<a \div b, 1>>

\* Python 3 true division of two integers, as an exact fraction <<num, den>>.
TrueDiv(a, b) == LET g == Gcd(Abs(a), b) IN <<a \div g, b \div g>>

\* Sequencing of statements: `first` is evaluated once and its value is
\* handed to `rest`.
Then(first, rest(_)) == CHOOSE r \in {rest(v) : v \in {first}} : TRUE

\* math.sqrt, kept symbolic: the value whose square is r.
sqrt(r) == [sqrt_of |-> r]

-----------------------------------------------------------------------------
(* The graph *)

NoAttr == [padding |-> "", stddev |-> sqrt(<<1, 1>>), target |-> <<>>]

\* Graph.unique_name: the first use of a name is kept, later uses get _1, _2...
unique_name(g, base) ==
    <<base, Cardinality({i \in DOMAIN g : g[i].name[1] = base})>>

AddNode(g, op, name, inputs, shape, attr) ==
    Append(g, [op |-> op, name |-> name, inputs |-> inputs,
               shape |-> shape, attr |-> attr])

placeholder(g, shape, name) ==
    AddNode(g, "Placeholder", unique_name(g, name), <<>>, shape, NoAttr)

no_op(g) == AddNode(g, "NoOp", unique_name(g, "NoOp"), <<>>, <<>>, NoAttr)

random_normal(g, shape, stddev) ==
    AddNode(g, "RandomNormal", unique_name(g, "random_normal"), <<>>, shape,
            [NoAttr EXCEPT !.stddev = stddev])

zeros(g, shape) ==
    AddNode(g, "Zeros", unique_name(g, "zeros"), <<>>, shape, NoAttr)

\* tf.Variable with the initial value as a node, but no variable around it:
\* the handle is the random tensor itself.
Variable_unwrapped(g, initial_value, name) == g

\* tf.Variable(initial_value, name=...): a new variable, its name made unique.
Variable(g, initial_value, name) ==
    AddNode(g, "Variable", unique_name(g, name), <<initial_value>>,
            g[initial_value].shape, NoAttr)

matmul(g, a, b) ==
    AddNode(g, "MatMul", unique_name(g, "MatMul"), <<a, b>>,
            <<g[a].shape[1], g[b].shape[2]>>, NoAttr)

add(g, a, b) ==
    AddNode(g, "Add", unique_name(g, "add"), <<a, b>>, g[a].shape, NoAttr)

\* The activation left out: the layer's output is its input.
relu_identity(g, a) ==
    AddNode(g, "Identity", unique_name(g, "Identity"), <<a>>, g[a].shape, NoAttr)

relu(g, a) ==
    AddNode(g, "Relu", unique_name(g, "Relu"), <<a>>, g[a].shape, NoAttr)

softmax(g, logits) ==
    AddNode(g, "Softmax", unique_name(g, "Softmax"), <<logits>>,
            g[logits].shape, NoAttr)

reduce_mean(g, t) ==
    AddNode(g, "Mean", unique_name(g, "Mean"), <<t>>, <<>>, NoAttr)

\* TensorShape.is_compatible_with
Compatible(s, t) ==
    /\ Len(s) = Len(t)
    /\ \A i \in DOMAIN s : s[i] = None \/ t[i] = None \/ s[i] = t[i]

\* tf.losses.softmax_cross_entropy with reduction SUM.
softmax_cross_entropy_sum(g, onehot_labels, logits) ==
    IF ~Compatible(g[logits].shape, g[onehot_labels].shape)
    THEN [g |-> g, raised |-> "ValueError"]
    ELSE LET g1 == AddNode(g, "SoftmaxCrossEntropyWithLogits",
                           unique_name(g, "softmax_cross_entropy_loss/xentropy"),
                           <<logits, onehot_labels>>, <<g[logits].shape[1]>>,
                           NoAttr)
         IN [g |-> AddNode(g1, "Sum",
                           unique_name(g1, "softmax_cross_entropy_loss/value"),
                           <<Len(g1)>>, <<>>, NoAttr),
             raised |-> ""]

\* tf.losses.softmax_cross_entropy(onehot_labels, logits) with the default
\* weights 1.0 and the default reduction SUM_BY_NONZERO_WEIGHTS: the
\* per-example cross-entropy, then its weighted reduction to a scalar.
softmax_cross_entropy(g, onehot_labels, logits) ==
    IF ~Compatible(g[logits].shape, g[onehot_labels].shape)
    THEN [g |-> g, raised |-> "ValueError"]
    ELSE LET g1 == AddNode(g, "SoftmaxCrossEntropyWithLogits",
                           unique_name(g, "softmax_cross_entropy_loss/xentropy"),
                           <<logits, onehot_labels>>, <<g[logits].shape[1]>>,
                           NoAttr)
         IN [g |-> AddNode(g1, "SumByNonzeroWeights",
                           unique_name(g1, "softmax_cross_entropy_loss/value"),
                           <<Len(g1)>>, <<>>, NoAttr),
             raised |-> ""]

\* Output size of a stride-1 convolution along one dimension.
ConvOutDim(n, k, padding) == IF padding = "same" THEN n ELSE n - k + 1

HasName(g, name) == \E i \in DOMAIN g : g[i].name = <<name, 0>>

NodeNamed(g, name) == CHOOSE i \in DOMAIN g : g[i].name = <<name, 0>>

\* tf.layers.conv2d(inputs, filters, kernel_size, padding, activation, name,
\* reuse): the layer opens the variable scope `name` and gets its kernel and
\* bias with get_variable, which raises ValueError when a variable of that
\* name exists and the scope does not reuse, and returns the existing
\* variable when it does; then convolution (stride 1), bias and activation.
layers_conv2d(g, inputs, filters, kernel_size, padding, activation, name, reuse) ==
    LET in == g[inputs].shape
        exists == HasName(g, name \o "/kernel")
        out == <<in[1], ConvOutDim(in[2], kernel_size[1], padding),
                 ConvOutDim(in[3], kernel_size[2], padding), filters>>
        Convolve(g4, kernel, bias) ==
            IF out[2] < 1 \/ out[3] < 1
            THEN [g |-> g4, raised |-> "ValueError"]
            ELSE
            Then(AddNode(g4, "Conv2D", unique_name(g4, name \o "/Conv2D"),
                         <<inputs, kernel>>, out,
                         [NoAttr EXCEPT !.padding = padding]), LAMBDA g5 :
            Then(AddNode(g5, "BiasAdd", unique_name(g5, name \o "/BiasAdd"),
                         <<Len(g5), bias>>, out, NoAttr), LAMBDA g6 :
            [g |-> AddNode(g6, activation,
                           unique_name(g6, name \o "/" \o activation),
                           <<Len(g6)>>, out, NoAttr),
             raised |-> ""]))
    IN IF exists /\ ~reuse
       THEN [g |-> g, raised |-> "ValueError"]
       ELSE IF exists
       THEN Convolve(g, NodeNamed(g, name \o "/kernel"),
                     NodeNamed(g, name \o "/bias"))
       ELSE
       Then(AddNode(g, "GlorotUniform",
                    unique_name(g, name \o "/kernel/Initializer"), <<>>,
                    <<kernel_size[1], kernel_size[2], in[4], filters>>,
                    NoAttr), LAMBDA g1 :
       Then(AddNode(g1, "Variable", <<name \o "/kernel", 0>>, <<Len(g1)>>,
                    g1[Len(g1)].shape, NoAttr), LAMBDA g2 :
       Then(AddNode(g2, "Zeros", unique_name(g2, name \o "/bias/Initializer"),
                    <<>>, <<filters>>, NoAttr), LAMBDA g3 :
       Then(AddNode(g3, "Variable", <<name \o "/bias", 0>>, <<Len(g3)>>,
                    <<filters>>, NoAttr), LAMBDA g4 :
       Convolve(g4, Len(g2), Len(g4))))))

\* The same call with reuse=True.
conv2d_reuse(g, inputs, filters, kernel_size, padding, activation, name) ==
    layers_conv2d(g, inputs, filters, kernel_size, padding, activation, name, TRUE)

\* tf.layers.conv2d as hw1.py calls it: reuse is left at its default.
conv2d(g, inputs, filters, kernel_size, padding, activation, name) ==
    layers_conv2d(g, inputs, filters, kernel_size, padding, activation, name, FALSE)

\* Static shape of tf.reshape(t, target), target holding one -1.
ReshapeShape(in, target) ==
    IF \E i \in DOMAIN in : in[i] = None
    THEN target
    ELSE LET known == Prod([i \in DOMAIN target |->
                              IF target[i] = -1 THEN 1 ELSE target[i]])
         IN [i \in DOMAIN target |->
               IF target[i] = -1 THEN Prod(in) \div known ELSE target[i]]

reshape(g, t, shape) ==
    AddNode(g, "Reshape", unique_name(g, "Reshape"), <<t>>,
            ReshapeShape(g[t].shape, shape), [NoAttr EXCEPT !.target = shape])

-----------------------------------------------------------------------------
(* The builders of hw1.py.  Each returns the graph it leaves behind, the   *)
(* tuple it returns (ret) and the exception it raises, if any.             *)

onelayer(g, X, Y, layersize) ==
    LET x_size == g[X].shape[2]
        var == TrueDiv(2, x_size)
        std_dev == sqrt(var)
    IN Then(random_normal(g, <<x_size, layersize>>, std_dev), LAMBDA g1 :
       Then(Variable(g1, Len(g1), "weights"), LAMBDA g2 :
       Then(zeros(g2, <<layersize>>), LAMBDA g3 :
       Then(Variable(g3, Len(g3), "biases"), LAMBDA g4 :
       Then(matmul(g4, X, Len(g2)), LAMBDA g5 :
       Then(add(g5, Len(g5), Len(g4)), LAMBDA g6 :
       Then(softmax_cross_entropy(g6, Y, Len(g6)), LAMBDA x :
       IF x.raised # "" THEN [g |-> x.g, ret |-> <<>>, raised |-> x.raised]
       ELSE
       Then(reduce_mean(x.g, Len(x.g)), LAMBDA g8 :
       Then(softmax(g8, Len(g6)), LAMBDA g9 :
       LET w == Len(g2)
           b == Len(g4)
           logits == Len(g6)
           batch_xentropy == Len(x.g)
           batch_loss == Len(g8)
           preds == Len(g9)
       IN [g |-> g9, raised |-> "",
           ret |-> <<w, b, logits, preds, batch_xentropy, batch_loss>>]
       )))))))))

twolayer(g, X, Y, hiddensize, outputsize) ==
    LET x_size == g[X].shape[2]
        var1 == TrueDiv(2, x_size)
        std_dev1 == sqrt(var1)
        var2 == TrueDiv(2, hiddensize)
        std_dev2 == sqrt(var2)
    IN Then(random_normal(g, <<x_size, hiddensize>>, std_dev1), LAMBDA g1 :
       Then(Variable(g1, Len(g1), "layer_1_weights"), LAMBDA g2 :
       Then(zeros(g2, <<hiddensize>>), LAMBDA g3 :
       Then(Variable(g3, Len(g3), "layer_1_biases"), LAMBDA g4 :
       Then(random_normal(g4, <<hiddensize, outputsize>>, std_dev2), LAMBDA g5 :
       Then(Variable(g5, Len(g5), "layer_2_weights"), LAMBDA g6 :
       Then(zeros(g6, <<outputsize>>), LAMBDA g7 :
       Then(Variable(g7, Len(g7), "layer_2_biases"), LAMBDA g8 :
       Then(matmul(g8, X, Len(g2)), LAMBDA g9 :
       Then(add(g9, Len(g9), Len(g4)), LAMBDA g10 :
       Then(relu(g10, Len(g10)), LAMBDA g11 :
       Then(matmul(g11, Len(g11), Len(g6)), LAMBDA g12 :
       Then(add(g12, Len(g12), Len(g8)), LAMBDA g13 :
       Then(softmax_cross_entropy(g13, Y, Len(g13)), LAMBDA x :
       IF x.raised # "" THEN [g |-> x.g, ret |-> <<>>, raised |-> x.raised]
       ELSE
       Then(reduce_mean(x.g, Len(x.g)), LAMBDA g15 :
       Then(softmax(g15, Len(g13)), LAMBDA g16 :
       LET w1 == Len(g2)
           b1 == Len(g4)
           w2 == Len(g6)
           b2 == Len(g8)
           logits == Len(g13)
           batch_xentropy == Len(x.g)
           batch_loss == Len(g15)
           preds == Len(g16)
       IN [g |-> g16, raised |-> "",
           ret |-> <<w1, b1, w2, b2, logits, preds, batch_xentropy, batch_loss>>]
       ))))))))))))))))

padding_valid == "valid"

\* The padding convnet passes to conv1 and to conv2.
conv1_padding == "same"

conv2_padding == "same"

convnet(g, X, Y, convlayer_sizes, filter_shape, outputsize, padding) ==
    LET image_x == g[X].shape[2]
        image_y == g[X].shape[3]
    IN Then(conv2d(g, X, convlayer_sizes[1], filter_shape, conv1_padding,
                   "Relu", "conv1"), LAMBDA c1 :
       IF c1.raised # "" THEN [g |-> c1.g, ret |-> <<>>, raised |-> c1.raised]
       ELSE
       Then(conv2d(c1.g, Len(c1.g), convlayer_sizes[2], filter_shape,
                   conv2_padding, "Relu", "conv2"), LAMBDA c2 :
       IF c2.raised # "" THEN [g |-> c2.g, ret |-> <<>>, raised |-> c2.raised]
       ELSE
       Then(reshape(c2.g, Len(c2.g),
                    <<-1, image_x * image_y * convlayer_sizes[2]>>), LAMBDA g3 :
       Then(onelayer(g3, Len(g3), Y, outputsize), LAMBDA o :
       IF o.raised # "" THEN [g |-> o.g, ret |-> <<>>, raised |-> o.raised]
       ELSE LET conv1 == Len(c1.g)
                conv2 == Len(c2.g)
            IN [g |-> o.g, raised |-> "", ret |-> <<conv1, conv2>> \o o.ret]
       ))))

-----------------------------------------------------------------------------
(* Run-time values and the kernels of the operations *)

\* An array; its entries are laid out as a sequence.
T(shape, data) ==
    [kind |-> "ndarray", shape |-> shape \o <<>>, data |-> data \o <<>>, den |-> 1]

NoneVal == [kind |-> "None", shape |-> <<>>, data |-> <<>>, den |-> 1]

ErrVal == [kind |-> "error", shape |-> <<>>, data |-> <<>>, den |-> 1]

IsErr(v) == v.kind = "error"

\* A fraction in lowest terms.
Normalise(v) ==
    LET d == Gcd(GcdAll(v.data), v.den)
    IN [v EXCEPT !.data = [i \in DOMAIN v.data |-> v.data[i] \div d],
                 !.den = v.den \div d]

\* The pseudo-random generator of the session: the entries a random op
\* yields are a function of the generator's state and the op.
Sample(rng, n, shape) ==
    T(shape, [i \in 1..Prod(shape) |-> ((rng + n + i * i) % 3) - 1])

ZerosV(shape) == T(shape, [i \in 1..Prod(shape) |-> 0])

MatMulV(a, b) ==
    IF IsErr(a) \/ IsErr(b) THEN ErrVal
    ELSE IF Len(a.shape) # 2 \/ Len(b.shape) # 2 THEN ErrVal
    ELSE IF a.shape[2] # b.shape[1] THEN ErrVal
    ELSE LET F == a.shape[2]
             L == b.shape[2]
         IN T(<<a.shape[1], L>>,
              [idx \in 1..(a.shape[1] * L) |->
                 LET i == (idx - 1) \div L
                     j == (idx - 1) % L
                 IN Sum([k \in 1..F |->
                           a.data[i * F + k] * b.data[(k - 1) * L + j + 1]])])

\* a + b with the vector b broadcast along the last dimension of a.
AddV(a, b) ==
    IF IsErr(a) \/ IsErr(b) THEN ErrVal
    ELSE IF a.shape[Len(a.shape)] # b.shape[1] THEN ErrVal
    ELSE LET L == b.shape[1]
         IN T(a.shape, [idx \in DOMAIN a.data |->
                          a.data[idx] + b.data[((idx - 1) % L) + 1]])

ReluV(a) ==
    IF IsErr(a) THEN ErrVal
    ELSE T(a.shape, [idx \in DOMAIN a.data |->
                       IF a.data[idx] > 0 THEN a.data[idx] ELSE 0])

\* Stride-1 convolution of x (batch, height, width, channels) with the
\* kernel k (height, width, channels, filters); "same" pads with zeros.
Conv2DV(x, k, padding) ==
    IF IsErr(x) \/ IsErr(k) THEN ErrVal
    ELSE IF Len(x.shape) # 4 \/ x.shape[4] # k.shape[3] THEN ErrVal
    ELSE LET H == x.shape[2]
             W == x.shape[3]
             C == x.shape[4]
             kh == k.shape[1]
             kw == k.shape[2]
             Fo == k.shape[4]
             Ho == ConvOutDim(H, kh, padding)
             Wo == ConvOutDim(W, kw, padding)
             pt == IF padding = "same" THEN (kh - 1) \div 2 ELSE 0
             pl == IF padding = "same" THEN (kw - 1) \div 2 ELSE 0
         IN IF Ho < 1 \/ Wo < 1 THEN ErrVal
            ELSE T(<<x.shape[1], Ho, Wo, Fo>>,
              [idx \in 1..(x.shape[1] * Ho * Wo * Fo) |->
                 LET f == (idx - 1) % Fo
                     j == ((idx - 1) \div Fo) % Wo
                     i == ((idx - 1) \div (Fo * Wo)) % Ho
                     b == (idx - 1) \div (Fo * Wo * Ho)
                 IN Sum([t \in 1..(kh * kw * C) |->
                      LET c == (t - 1) % C
                          dj == ((t - 1) \div C) % kw
                          di == (t - 1) \div (C * kw)
                          ii == i + di - pt
                          jj == j + dj - pl
                      IN IF ii < 0 \/ ii >= H \/ jj < 0 \/ jj >= W THEN 0
                         ELSE x.data[((b * H + ii) * W + jj) * C + c + 1]
                              * k.data[((di * kw + dj) * C + c) * Fo + f + 1]])])

\* tf.reshape at run time: the -1 of the target takes what is left, and the
\* kernel fails when the sizes do not divide.
ReshapeV(a, target) ==
    IF IsErr(a) THEN ErrVal
    ELSE LET known == Prod([i \in DOMAIN target |->
                              IF target[i] = -1 THEN 1 ELSE target[i]])
         IN IF known = 0 \/ Len(a.data) % known # 0 THEN ErrVal
            ELSE T([i \in DOMAIN target |->
                      IF target[i] = -1 THEN Len(a.data) \div known
                      ELSE target[i]], a.data)

RECURSIVE Log2(_)
Log2(n) == IF n <= 1 THEN 0 ELSE 1 + Log2(n \div 2)

\* Per-example softmax cross-entropy, -sum_j y_j * log softmax(l)_j, written
\* sum_j y_j * (logsumexp(l) - l_j); logarithms are to the base 2 and
\* quantised to integers.
XentV(logits, labels) ==
    IF IsErr(logits) \/ IsErr(labels) THEN ErrVal
    ELSE IF Len(logits.shape) # 2 \/ logits.shape # labels.shape THEN ErrVal
    ELSE LET C == logits.shape[2]
             row(i) == [j \in 1..C |-> logits.data[(i - 1) * C + j]]
             lse(l) == LET m == Min({l[j] : j \in 1..C})
                       IN m + Log2(Sum([j \in 1..C |-> 2 ^ (l[j] - m)]))
         IN T(<<logits.shape[1]>>,
              [i \in 1..logits.shape[1] |->
                 LET l == row(i)
                     z == lse(l)
                 IN Sum([j \in 1..C |->
                           labels.data[(i - 1) * C + j] * (z - l[j])])])

SumV(t) ==
    IF IsErr(t) THEN ErrVal
    ELSE Normalise([kind |-> "ndarray", shape |-> <<>>,
                    data |-> <<Sum(t.data)>>, den |-> t.den])

\* Reduction SUM_BY_NONZERO_WEIGHTS with the scalar weight 1.0: the sum of
\* the losses over the number of them.
SumByNonzeroWeightsV(t) ==
    IF IsErr(t) THEN ErrVal
    ELSE IF Len(t.data) = 0 THEN T(<<>>, <<0>>)
    ELSE Normalise([kind |-> "ndarray", shape |-> <<>>,
                    data |-> <<Sum(t.data)>>, den |-> t.den * Len(t.data)])

\* tf.reduce_mean over all the elements of t (one element when t is a scalar).
MeanV(t) ==
    IF IsErr(t) THEN ErrVal
    ELSE IF Len(t.data) = 0 THEN ErrVal
    ELSE Normalise([kind |-> "ndarray", shape |-> <<>>,
                    data |-> <<Sum(t.data)>>, den |-> t.den * Len(t.data)])

\* The serialised summary of a scalar.
SummaryV(t) == IF IsErr(t) THEN ErrVal ELSE [t EXCEPT !.kind = "bytes"]

-----------------------------------------------------------------------------
(* The session *)

\* The inputs an op reads when it runs: a variable holds its value and does
\* not run its initial value again.
RtInputs(node) == IF node.op = "Variable" THEN <<>> ELSE node.inputs

RECURSIVE Deps(_, _)
Deps(g, n) ==
    {n} \cup UNION {Deps(g, RtInputs(g[n])[k]) : k \in DOMAIN RtInputs(g[n])}

\* The kernel of one node, given the values `in` of the nodes before it.
Kernel(node, n, in, s, feed) ==
    LET op == node.op
        x(k) == in[node.inputs[k]]
    IN CASE op = "Placeholder" -> IF n \in DOMAIN feed THEN feed[n] ELSE ErrVal
         [] op = "Variable" -> IF n \in DOMAIN s.vals THEN s.vals[n] ELSE ErrVal
         [] op \in {"RandomNormal", "GlorotUniform"} -> Sample(s.rng, n, node.shape)
         [] op = "Zeros" -> ZerosV(node.shape)
         [] op = "MatMul" -> MatMulV(x(1), x(2))
         [] op \in {"Add", "BiasAdd"} -> AddV(x(1), x(2))
         [] op = "Relu" -> ReluV(x(1))
         [] op = "Conv2D" -> Conv2DV(x(1), x(2), node.attr.padding)
         [] op = "Reshape" -> ReshapeV(x(1), node.attr.target)
         [] op = "SoftmaxCrossEntropyWithLogits" -> XentV(x(1), x(2))
         [] op = "SumByNonzeroWeights" -> SumByNonzeroWeightsV(x(1))
         [] op = "Sum" -> SumV(x(1))
         [] op = "Mean" -> MeanV(x(1))
         [] op = "ScalarSummary" -> SummaryV(x(1))
         [] op = "ApplyGradientDescent" -> IF IsErr(x(1)) THEN ErrVal ELSE NoneVal
         [] op = "NoOp" -> NoneVal
         [] OTHER -> ErrVal

\* One step of the executor over the nodes 1..n (a node's inputs come before
\* it): each needed node runs exactly once, the others do not run.
RECURSIVE Execute(_, _, _, _, _)
Execute(g, s, feed, need, n) ==
    IF n = 0 THEN <<>>
    ELSE CHOOSE out \in
           {Append(before, IF n \in need THEN Kernel(g[n], n, before, s, feed)
                           ELSE NoneVal) :
              before \in {Execute(g, s, feed, need, n - 1)}} : TRUE

Eval(g, s, feed, n) == Execute(g, s, feed, Deps(g, n), n)[n]

VariablesOf(g) == {n \in DOMAIN g : g[n].op = "Variable"}

NoSession == [graph |-> <<>>, vals |-> <<>>, rng |-> 0, runs |-> <<>>]

\* tf.Session() followed by the run of global_variables_initializer: every
\* variable takes the value of its initial-value node.
Session(g, seed) ==
    [graph |-> g,
     vals |-> [n \in VariablesOf(g) |-> Eval(g, [vals |-> <<>>, rng |-> seed], <<>>,
                                              g[n].inputs[1])],
     rng |-> seed,
     runs |-> <<>>]

\* The variables an update op of the optimizer changes: those its loss reads.
UpdatedBy(g, fetches) ==
    UNION {Deps(g, fetches[k]) \cap VariablesOf(g) :
             k \in {k \in DOMAIN fetches : g[fetches[k]].op = "ApplyGradientDescent"}}

\* One step of the optimizer on a variable (the gradient itself is the
\* optimizer's business: the step moves every entry).
DescentStep(v) == T(v.shape, [i \in DOMAIN v.data |-> v.data[i] - 1])

\* Session.run(fetches, feed_dict): the fed values are checked against the
\* static shapes of the placeholders, then every fetched op runs once in
\* the same step; the step fails when an op it needs fails.
run(s, fetches, feed_dict) ==
    LET g == s.graph
        badfeed == \E p \in DOMAIN feed_dict :
                      ~Compatible(g[p].shape, feed_dict[p].shape)
        upd == UpdatedBy(g, fetches)
        Outcome(need, out) ==
            LET values == [k \in DOMAIN fetches |-> out[fetches[k]]]
                raised == IF badfeed THEN "ValueError"
                          ELSE IF \E k \in DOMAIN values : IsErr(values[k])
                          THEN "InvalidArgumentError"
                          ELSE ""
                random == \E n \in need :
                             g[n].op \in {"RandomNormal", "GlorotUniform"}
                log == [fetches |-> fetches, feed_dict |-> feed_dict,
                        raised |-> raised,
                        values |-> IF raised # "" THEN <<>> ELSE values]
            IN IF raised # ""
               THEN [sess |-> [s EXCEPT !.runs = Append(@, log)],
                     raised |-> raised, values |-> <<>>]
               ELSE [sess |-> [s EXCEPT
                        !.runs = Append(@, log),
                        !.rng = IF random THEN s.rng + 1 ELSE s.rng,
                        !.vals = [n \in DOMAIN s.vals |->
                                    IF n \in upd THEN DescentStep(s.vals[n])
                                    ELSE s.vals[n]]],
                     raised |-> "", values |-> values]
    IN CHOOSE r \in
         UNION {{Outcome(need, out) :
                   out \in {Execute(g, s, feed_dict, need, Len(g))}} :
                need \in {UNION {Deps(g, fetches[k]) : k \in DOMAIN fetches}}} :
         TRUE

-----------------------------------------------------------------------------
(* train_step *)

\* The dict literal {X: x, Y: y}: a later key replaces an equal earlier one.
FeedDict(X, x, Y, y) == (Y :> y) @@ (X :> x)

\* The feed with the two arrays of the batch exchanged.
train_step_swapped(s, batch, X, Y, train_op, loss_op, summaries_op) ==
    CHOOSE t \in
      {[sess |-> r.sess, raised |-> r.raised, ret |-> r.values] :
         r \in {run(s, <<train_op, loss_op, summaries_op>>,
                    FeedDict(X, batch[2], Y, batch[1]))}} : TRUE

\* A failure of the run is caught and a tuple of None is returned.
train_step_catch(s, batch, X, Y, train_op, loss_op, summaries_op) ==
    CHOOSE t \in
      {[sess |-> r.sess, raised |-> "",
        ret |-> IF r.raised # "" THEN <<NoneVal, NoneVal, NoneVal>>
                ELSE r.values] :
         r \in {run(s, <<train_op, loss_op, summaries_op>>,
                    FeedDict(X, batch[1], Y, batch[2]))}} : TRUE

\* train_step: one sess.run of the three ops with the batch fed to X and Y;
\* its three results are returned, and an exception of the run is the
\* exception of train_step.
train_step(s, batch, X, Y, train_op, loss_op, summaries_op) ==
    CHOOSE t \in
      {[sess |-> r.sess, raised |-> r.raised, ret |-> r.values] :
         r \in {run(s, <<train_op, loss_op, summaries_op>>,
                    FeedDict(X, batch[1], Y, batch[2]))}} : TRUE

-----------------------------------------------------------------------------
(* The driver: placeholders, arguments of the builders, optimizer, batches *)

Shapes == {[F |-> 2, image |-> <<2, 2, 2>>, classes |-> 2],
           [F |-> 3, image |-> <<3, 2, 1>>, classes |-> 3]}

LayerSizes == {2, 3}
HiddenSizes == {1, 2}
ConvLayerSizes == {<<1, 2>>, <<2, 1>>}
FilterShapes == {<<2, 2>>, <<3, 2>>}
Paddings == {"same", "valid"}
Seeds == {0, 1}
BatchSizes == {1, 2}
Patterns == {1}

\* The graph the driver prepares: a flat input, an image input, the one-hot
\* targets and a no-op.
DriverGraph(c) ==
    Then(placeholder(<<>>, <<None, c.F>>, "image_input"), LAMBDA g1 :
    Then(placeholder(g1, <<None>> \o c.image, "image_input"), LAMBDA g2 :
    Then(placeholder(g2, <<None, c.classes>>, "image_target_onehot"), LAMBDA g3 :
    no_op(g3))))

XFlat == 1
XImage == 2
YTarget == 3
NoOpId == 4

\* optimizer.minimize(loss) and tf.summary.scalar(loss), added by the driver.
Minimize(g, loss) ==
    Then(AddNode(g, "ApplyGradientDescent", unique_name(g, "GradientDescent"),
                 <<loss>>, <<>>, NoAttr), LAMBDA g1 :
    AddNode(g1, "ScalarSummary", unique_name(g1, "loss"), <<loss>>, <<>>, NoAttr))

CallRecord(fn, g, X, Y, sizes, filter_shape, padding, r) ==
    [fn |-> fn, X |-> X, Y |-> Y, sizes |-> sizes, filter_shape |-> filter_shape,
     padding |-> padding, first |-> Len(g) + 1, last |-> Len(r.g),
     ret |-> r.ret, raised |-> r.raised]

\* A minibatch: B examples whose entries and classes follow the pattern p.
Batch(xshape, classes, B, By, p) ==
    <<T(<<B>> \o xshape, [i \in 1..(B * Prod(xshape)) |-> (i + p) % 2]),
      T(<<By, classes>>, [i \in 1..(By * classes) |->
          IF (i - 1) % classes = (((i - 1) \div classes) + p) % classes
          THEN 1 ELSE 0])>>

\* The minibatches the driver passes: well-formed ones, one whose rows are
\* too long for the placeholder and one whose two arrays differ in length.
Batches(xshape, classes) ==
    {Batch(xshape, classes, B, B, p) : B \in BatchSizes, p \in Patterns}
    \cup {Batch([i \in DOMAIN xshape |->
                   IF i = Len(xshape) THEN xshape[i] + 1 ELSE xshape[i]],
                classes, 1, 1, 1),
          Batch(xshape, classes, 2, 3, 1)}

-----------------------------------------------------------------------------
(* Graph construction: the builders called in any order on one graph *)

Init ==
    /\ \E c \in Shapes : graph = DriverGraph(c)
    /\ calls = <<>>
    /\ sess = NoSession
    /\ steps = <<>>

OneLayer ==
    /\ Len(calls) < MaxCalls
    /\ \E layersize \in LayerSizes :
         LET r == onelayer(graph, XFlat, YTarget, layersize)
         IN /\ graph' = r.g
            /\ calls' = Append(calls, CallRecord("onelayer", graph, XFlat, YTarget,
                                                 <<layersize>>, <<>>, "", r))
    /\ UNCHANGED <<sess, steps>>

TwoLayer ==
    /\ Len(calls) < MaxCalls
    /\ \E hiddensize \in HiddenSizes, outputsize \in LayerSizes :
         LET r == twolayer(graph, XFlat, YTarget, hiddensize, outputsize)
         IN /\ graph' = r.g
            /\ calls' = Append(calls, CallRecord("twolayer", graph, XFlat, YTarget,
                                                 <<hiddensize, outputsize>>,
                                                 <<>>, "", r))
    /\ UNCHANGED <<sess, steps>>

ConvNet ==
    /\ Len(calls) < MaxCalls
    /\ \E convlayer_sizes \in ConvLayerSizes, filter_shape \in FilterShapes,
          outputsize \in LayerSizes, padding \in Paddings :
         LET r == convnet(graph, XImage, YTarget, convlayer_sizes, filter_shape,
                          outputsize, padding)
         IN /\ graph' = r.g
            /\ calls' = Append(calls, CallRecord("convnet", graph, XImage, YTarget,
                                                 convlayer_sizes \o <<outputsize>>,
                                                 filter_shape, padding, r))
    /\ UNCHANGED <<sess, steps>>

Next == OneLayer \/ TwoLayer \/ ConvNet

Spec == Init /\ [][Next]_vars

-----------------------------------------------------------------------------
(* Training: the driver builds one model, opens a session and calls        *)
(* train_step once per minibatch                                           *)

Built(c) ==
    LET g == DriverGraph(c)
    IN {[fn |-> "onelayer", sizes |-> <<c.classes>>, filter_shape |-> <<>>,
         r |-> onelayer(g, XFlat, YTarget, c.classes)],
        [fn |-> "twolayer", sizes |-> <<2, c.classes>>, filter_shape |-> <<>>,
         r |-> twolayer(g, XFlat, YTarget, 2, c.classes)],
        [fn |-> "convnet", sizes |-> <<2, 1, c.classes>>, filter_shape |-> <<2, 2>>,
         r |-> convnet(g, XImage, YTarget, <<2, 1>>, <<2, 2>>, c.classes, "same")],
        [fn |-> "convnet", sizes |-> <<1, 2, c.classes>>, filter_shape |-> <<3, 3>>,
         r |-> convnet(g, XImage, YTarget, <<1, 2>>, <<3, 3>>, c.classes, "same")]}

InitTrain ==
    /\ \E c \in Shapes : \E m \in Built(c) : \E seed \in Seeds :
         m.r.raised = "" /\
         LET X == IF m.fn = "convnet" THEN XImage ELSE XFlat
             g == Minimize(m.r.g, m.r.ret[Len(m.r.ret)])
         IN /\ graph = g
            /\ calls = <<CallRecord(m.fn, DriverGraph(c), X, YTarget, m.sizes,
                                    m.filter_shape,
                                    IF m.fn = "convnet" THEN "same" ELSE "", m.r)>>
            /\ sess = Session(g, seed)
    /\ steps = <<>>

TrainStep ==
    /\ Len(steps) < MaxSteps
    /\ LET c == calls[1]
           loss_op == c.ret[Len(c.ret)]
           summaries_op == Len(graph)
       IN \E batch \in Batches(Tail(graph[c.X].shape), graph[c.Y].shape[2]) :
          \E train_op \in {NoOpId, Len(graph) - 1} :
          \E r \in {train_step(sess, batch, c.X, c.Y, train_op, loss_op,
                               summaries_op)} :
               /\ sess' = r.sess
               /\ steps' = Append(steps,
                    [batch |-> batch, X |-> c.X, Y |-> c.Y, train_op |-> train_op,
                     loss_op |-> loss_op, summaries_op |-> summaries_op,
                     runs_before |-> Len(sess.runs), runs_after |-> Len(r.sess.runs),
                     raised |-> r.raised, ret |-> r.ret])
    /\ UNCHANGED <<graph, calls>>

NextTrain == TrainStep

SpecTrain == InitTrain /\ [][NextTrain]_vars

-----------------------------------------------------------------------------
(* Properties *)

Succeeded(c) == c.raised = ""

\* The well-formed minibatches of the model under training.
GoodBatches(c) ==
    {Batch(Tail(graph[c.X].shape), graph[c.Y].shape[2], B, B, p) :
       B \in BatchSizes, p \in Patterns}

\* The Conv2D node behind the handle a convolution layer returns
\* (activation <- bias <- convolution).
ConvOf(g, h) == g[g[g[h].inputs[1]].inputs[1]]

\* The onelayer part of a call's tuple.
Head1(c) == IF c.fn = "convnet" THEN SubSeq(c.ret, 3, 8) ELSE c.ret

\* The variables the tensors of a call's tuple read.
Params(g, c) ==
    UNION {Deps(g, c.ret[k]) : k \in DOMAIN c.ret} \cap VariablesOf(g)

\* C1: every train_step makes exactly one session run; that run fetches
\* <<train_op, loss_op, summaries_op>> with batch[0] fed to X and batch[1]
\* fed to Y, and the tuple train_step returns is that run's result.
C1_OneRunPerStep ==
    /\ Len(sess.runs) = Len(steps)
    /\ \A i \in DOMAIN steps :
         LET st == steps[i]
             r == sess.runs[i]
         IN /\ st.runs_before = i - 1
            /\ st.runs_after = i
            /\ r.fetches = <<st.train_op, st.loss_op, st.summaries_op>>
            /\ DOMAIN r.feed_dict = {st.X, st.Y}
            /\ r.feed_dict[st.X] = st.batch[1]
            /\ r.feed_dict[st.Y] = st.batch[2]
            /\ Succeeded(st) => st.ret = r.values

C1_Witness ==
    /\ Len(steps) = 2
    /\ \A i \in DOMAIN steps :
         /\ Succeeded(steps[i])
         /\ graph[steps[i].train_op].op = "ApplyGradientDescent"
    /\ steps[1].ret[2] # steps[2].ret[2]

\* C2 (as claimed): the convolutions of convnet have the filter size and
\* the padding mode the caller gave.
C2_PaddingAsGiven ==
    \A i \in DOMAIN calls :
       LET c == calls[i]
       IN c.fn = "convnet" /\ Succeeded(c) =>
            \A k \in {1, 2} :
               LET conv == ConvOf(graph, c.ret[k])
               IN /\ conv.attr.padding = c.padding
                  /\ SubSeq(graph[conv.inputs[2]].shape, 1, 2) = c.filter_shape

\* C3 (as claimed): the batch_xentropy a builder returns evaluates to a
\* vector with one entry per example of the batch.
C3_PerExampleVector ==
    \A i \in DOMAIN calls :
       LET c == calls[i]
       IN Succeeded(c) =>
            \A batch \in GoodBatches(c) :
               \A r \in {run(sess, <<c.ret[Len(c.ret) - 1]>>,
                             FeedDict(c.X, batch[1], c.Y, batch[2]))} :
                  r.values[1].shape = <<batch[1].shape[1]>>

\* C4: for every builder and every batch, the batch_loss returned is the
\* arithmetic mean of the batch_xentropy returned with it, and the mean of
\* the cross-entropies of the examples of the batch.
C4_MeanLoss ==
    \A i \in DOMAIN calls :
       LET c == calls[i]
           batch_xentropy == c.ret[Len(c.ret) - 1]
           batch_loss == c.ret[Len(c.ret)]
           per_example == graph[batch_xentropy].inputs[1]
       IN Succeeded(c) =>
            \A batch \in GoodBatches(c) :
               \A r \in {run(sess, <<batch_loss, batch_xentropy, per_example>>,
                             FeedDict(c.X, batch[1], c.Y, batch[2]))} :
                  LET loss == r.values[1]
                      xent == r.values[2]
                      each == r.values[3]
                  IN /\ r.raised = ""
                     /\ Len(loss.data) = 1
                     /\ Len(each.data) = batch[1].shape[1]
                     /\ loss.data[1] * xent.den * Len(xent.data)
                          = Sum(xent.data) * loss.den
                     /\ loss.data[1] * each.den * Len(each.data)
                          = Sum(each.data) * loss.den

\* A step on two examples returned a mean loss that is not a whole number:
\* the two examples have different losses.
C4_Witness ==
    \E i \in DOMAIN steps :
       /\ Succeeded(steps[i])
       /\ steps[i].batch[1].shape[1] = 2
       /\ steps[i].ret[2].den = 2

\* C5 (as claimed): every builder call succeeds, whatever was built in the
\* graph before it, and no two calls share a parameter.  (A call whose
\* output width differs from the number of classes is rejected for its
\* shapes, which is no name collision, and is left aside.)
C5_EveryCallSucceeds ==
    /\ \A i \in DOMAIN calls :
         LET c == calls[i]
         IN c.sizes[Len(c.sizes)] = graph[c.Y].shape[2] => Succeeded(c)
    /\ \A i, j \in DOMAIN calls :
         i < j => Params(graph, calls[i]) \cap Params(graph, calls[j]) = {}

\* C5 (amended): the parameters of two successful calls are disjoint and no
\* two variables of the graph have the same name; onelayer and twolayer
\* never fail on a name, however often they are called; a convnet call
\* succeeds only when no earlier convnet call was made on the graph, and
\* otherwise raises ValueError on the name conv1/kernel and adds no node.
C5_FreshOrCollision ==
    /\ \A i, j \in DOMAIN calls :
         i < j => Params(graph, calls[i]) \cap Params(graph, calls[j]) = {}
    /\ \A m, n \in VariablesOf(graph) : graph[m].name = graph[n].name => m = n
    /\ \A j \in DOMAIN calls :
         LET c == calls[j]
             fits == c.sizes[Len(c.sizes)] = graph[c.Y].shape[2]
             earlier == \E i \in 1..(j - 1) : calls[i].fn = "convnet"
         IN /\ Succeeded(c) => Params(graph, c) \subseteq c.first..c.last
            /\ c.fn \in {"onelayer", "twolayer"} => (Succeeded(c) <=> fits)
            /\ c.fn = "convnet" =>
                 /\ Succeeded(c) <=> (fits /\ ~earlier)
                 /\ earlier => c.raised = "ValueError" /\ c.last < c.first

C5_Witness ==
    /\ Len(calls) = 2
    /\ calls[1].fn = "convnet" /\ Succeeded(calls[1])
    /\ calls[2].fn = "convnet" /\ calls[2].raised = "ValueError"
    /\ calls[2].sizes[3] = graph[YTarget].shape[2]

\* C6: a convnet built with padding "same" keeps the height and width of
\* the image in conv1 and conv2, flattens conv2 to H*W*c2 features per
\* example with the batch size of the input, and has logits of shape
\* (batch, outputsize); statically and for every batch size at run time.
C6_SameKeepsShape ==
    \A i \in DOMAIN calls :
       LET c == calls[i]
           in == graph[c.X].shape
           H == in[2]
           W == in[3]
           conv1 == c.ret[1]
           conv2 == c.ret[2]
           logits == c.ret[5]
           flat == graph[graph[logits].inputs[1]].inputs[1]
       IN c.fn = "convnet" /\ Succeeded(c) /\ c.padding = "same" =>
            /\ graph[conv1].shape = <<None, H, W, c.sizes[1]>>
            /\ graph[conv2].shape = <<None, H, W, c.sizes[2]>>
            /\ graph[flat].op = "Reshape" /\ graph[flat].inputs = <<conv2>>
            /\ graph[flat].shape = <<None, H * W * c.sizes[2]>>
            /\ graph[logits].shape = <<None, c.sizes[3]>>
            /\ \A B \in BatchSizes :
                 \A r \in {run(Session(graph, 0), <<conv1, conv2, flat, logits>>,
                               c.X :> ZerosV(<<B>> \o Tail(in)))} :
                    /\ r.raised = ""
                    /\ r.values[1].shape = <<B, H, W, c.sizes[1]>>
                    /\ r.values[2].shape = <<B, H, W, c.sizes[2]>>
                    /\ r.values[3].shape = <<B, H * W * c.sizes[2]>>
                    /\ r.values[4].shape = <<B, c.sizes[3]>>

C6_Witness ==
    \E i \in DOMAIN calls :
       /\ calls[i].fn = "convnet" /\ Succeeded(calls[i])
       /\ calls[i].padding = "same"
       /\ calls[i].filter_shape = <<3, 2>>
       /\ graph[calls[i].X].shape = <<None, 3, 2, 1>>

\* C7: a train_step whose train_op is a no-op changes no parameter, and
\* returns the loss that every earlier no-op step on the same minibatch
\* returned, as long as only no-op steps were made in between.
C7_NoOpRepeatable ==
    [][Len(steps') = Len(steps) + 1 =>
         LET new == steps'[Len(steps')]
         IN graph[new.train_op].op = "NoOp" =>
              /\ sess'.vals = sess.vals
              /\ \A i \in DOMAIN steps :
                   ( /\ Succeeded(new) /\ Succeeded(steps[i])
                     /\ steps[i].batch = new.batch
                     /\ steps[i].loss_op = new.loss_op
                     /\ \A k \in i..Len(steps) :
                          graph[steps[k].train_op].op = "NoOp" )
                   => new.ret[2] = steps[i].ret[2]]_vars

C7_Witness ==
    /\ Len(steps) = 2
    /\ \A i \in DOMAIN steps :
         Succeeded(steps[i]) /\ graph[steps[i].train_op].op = "NoOp"
    /\ steps[1].batch = steps[2].batch
    /\ steps[1].batch[1].shape[1] = 2
    /\ steps[2].ret[2].data[1] > 0

\* C8: when the session run of a train_step fails, train_step raises that
\* same failure, returns no tuple and has made that one run only.
C8_FailurePropagates ==
    \A i \in DOMAIN steps :
       LET st == steps[i]
           r == sess.runs[st.runs_after]
       IN r.raised # "" =>
            /\ st.raised = r.raised
            /\ st.ret = <<>>
            /\ st.runs_after = st.runs_before + 1

C8_Witness ==
    /\ Len(steps) = 2
    /\ steps[1].raised = "ValueError"
    /\ steps[2].raised = "InvalidArgumentError"
    /\ sess.runs[1].raised = "ValueError"

\* C9: onelayer (called directly, or by convnet on the flattened conv2)
\* creates weights of shape (F, layersize) drawn with stddev^2 * F = 2, a
\* bias of shape (layersize) that starts at zero, and logits X*W + b of
\* shape (batch, layersize), F being the static feature count of its input.
C9_OneLayerShapes ==
    \A i \in DOMAIN calls :
       LET c == calls[i]
           t == Head1(c)
           w == t[1]
           b == t[2]
           logits == t[3]
           product == graph[logits].inputs[1]
           X == graph[product].inputs[1]
           F == graph[X].shape[2]
           layersize == c.sizes[Len(c.sizes)]
           w0 == graph[graph[w].inputs[1]]
           b0 == graph[graph[b].inputs[1]]
       IN c.fn \in {"onelayer", "convnet"} /\ Succeeded(c) =>
            /\ graph[w].op = "Variable" /\ graph[w].shape = <<F, layersize>>
            /\ w0.op = "RandomNormal" /\ w0.shape = <<F, layersize>>
            /\ w0.attr.stddev.sqrt_of[1] * F = 2 * w0.attr.stddev.sqrt_of[2]
            /\ graph[b].op = "Variable" /\ graph[b].shape = <<layersize>>
            /\ b0.op = "Zeros" /\ b0.shape = <<layersize>>
            /\ graph[logits].op = "Add" /\ graph[logits].inputs = <<product, b>>
            /\ graph[product].op = "MatMul" /\ graph[product].inputs = <<X, w>>
            /\ graph[logits].shape = <<None, layersize>>
            /\ c.fn = "onelayer" => X = c.X
            /\ c.fn = "convnet" =>
                 /\ graph[X].op = "Reshape" /\ graph[X].inputs = <<c.ret[2]>>
                 /\ F = Prod(Tail(graph[c.ret[2]].shape))

C9_Witness ==
    /\ \E i \in DOMAIN calls :
         /\ calls[i].fn = "onelayer" /\ Succeeded(calls[i])
         /\ graph[calls[i].ret[1]].shape = <<3, 3>>
    /\ \E i \in DOMAIN calls :
         /\ calls[i].fn = "convnet" /\ Succeeded(calls[i])
         /\ graph[calls[i].ret[3]].shape = <<12, 3>>

====
